---- MODULE Spec2Model ----
(***************************************************************************)
(* The semantic response cache of rigrun and the call site that            *)
(* fix_cache_store.py writes into src/server/mod.rs (the text of new_code).*)
(*                                                                         *)
(* A task is one request handler.  One step of a task is the code it runs  *)
(* between two suspension points (.await): the handler is polled, runs     *)
(* synchronously, and stops at the next await that is not ready.           *)
(*                                                                         *)
(* The call site (new_code, lines 19-39) is modelled from the script.  The *)
(* cache behind it (lookup, store_response, store_with_embedding, the      *)
(* Similarity Index and the Entry Store) is not part of the script; it is  *)
(* modelled from the specification's sections 3-5 and 7.                   *)
(***************************************************************************)
EXTENDS Integers, Sequences, FiniteSets, TLC

\* ------------------------------------------------------------- bounds --
\* Total number of cache operations the handlers start.
MaxOps == 3

\* Pieces a target file is put together from, at most.
MaxChunks == 3

\* Times the script is run on the same file, at most.
MaxRuns == 2

\* ------------------------------------------------------------ domains --
Tasks == {"t1", "t2"}
Keys == {"k1", "k2", "k3"}

\* Embeddings are fixed-dimension vectors; the empty tuple is the absent
\* variant of Option<Embedding> (and a failed provider call).
NoEmbedding == <<>>
Embeddings == {<<0, 0>>, <<0, 1>>, <<3, 3>>}
OptEmbeddings == Embeddings \cup {NoEmbedding}

\* What the request pipeline hands to the store step: response_text,
\* actual_tier, prompt_tokens and completion_tokens.
Payloads ==
    { [response_text |-> "R1", actual_tier |-> "Fast",
       prompt_tokens |-> 30, completion_tokens |-> 12],
      [response_text |-> "R2", actual_tier |-> "Slow",
       prompt_tokens |-> 7, completion_tokens |-> 3] }

\* Capacity bound of the Entry Store and the similarity threshold of lookup
\* (largest squared distance that still counts as a semantic match).
Capacity == 2
Threshold == 1

NoReq ==
    [op |-> "none", cache_key |-> "", embedding |-> NoEmbedding,
     response_text |-> "", actual_tier |-> "",
     prompt_tokens |-> 0, completion_tokens |-> 0]

StoreReq(k, e, p) ==
    [op |-> "store", cache_key |-> k, embedding |-> e,
     response_text |-> p.response_text, actual_tier |-> p.actual_tier,
     prompt_tokens |-> p.prompt_tokens,
     completion_tokens |-> p.completion_tokens]

LookupReq(k) == [NoReq EXCEPT !.op = "lookup", !.cache_key = k]

EvictReq == [NoReq EXCEPT !.op = "evict"]

\* Results handed back to the caller.
NoResult == [kind |-> "none", response |-> "", tier |-> ""]
Ok == [kind |-> "ok", response |-> "", tier |-> ""]
Miss == [kind |-> "Miss", response |-> "", tier |-> ""]
Hit(r, t) == [kind |-> "Hit", response |-> r, tier |-> t]
IndexCorruption == [kind |-> "IndexCorruption", response |-> "", tier |-> ""]

NoCalls == [store_with_embedding |-> 0, store_response |-> 0]
NoStore == [response |-> "", tier |-> ""]
NoSnap == [index |-> <<>>, store |-> <<>>]

VARIABLES
    pc,        \* where each task stands
    req,       \* the operation each task is running
    result,    \* what the operation returned to its caller
    writers,   \* tasks holding the cache's exclusive lock
    readers,   \* tasks holding the cache's shared lock
    index,     \* Similarity Index: <<embedding, entry id>> in insertion order
    store,     \* Entry Store: entry id -> CacheEntry
    nextId,    \* next entry id the Entry Store hands out
    prov,      \* the embedding provider call of each task
    calls,     \* store calls the call site made for the task's request
    lastAcq,   \* per key: the last store to have acquired the exclusive lock
    prevAcq,   \* what lastAcq held for the task's key before the task acquired
    snap,      \* index and store as they were when store_response was called
    overlapped, \* the task's store began while another store to its key was under way
    ops        \* operations started so far

\* The patch script, fix_cache_store.py, and the file it rewrites.
VARIABLES
    at,          \* where the script stands
    file,        \* the target file on disk: text atoms and line terminators
    content,     \* what the script read
    new_content, \* what re.sub returned
    stdout,      \* what the script printed
    linesep,     \* the line terminator text-mode writes produce on this platform
    runs,        \* runs of the script begun so far
    before,      \* the file as the current run found it
    original     \* the file before the first run

script == <<at, file, content, new_content, stdout, linesep, runs, before, original>>

cache == <<pc, req, result, writers, readers, index, store, nextId, prov,
           calls, lastAcq, prevAcq, snap, overlapped, ops>>

vars == <<cache, script>>

\* ------------------------------------------------- Similarity Index --
\* Squared Euclidean distance of two embeddings: the smaller, the more
\* similar.
Distance(a, b) ==
    (a[1] - b[1]) * (a[1] - b[1]) + (a[2] - b[2]) * (a[2] - b[2])

\* insert(embedding, entry_id): appended, so position is insertion order.
IndexInsert(idx, e, id) == Append(idx, [embedding |-> e, id |-> id])

\* remove(entry_id)
IndexRemoveNoop(idx, ids) == idx

IndexRemove(idx, ids) == SelectSeq(idx, LAMBDA x : x.id \notin ids)

IndexIds(idx) == {idx[i].id : i \in 1..Len(idx)}

\* nearest(embedding, threshold): the position of the closest indexed entry
\* within the threshold, the most recently inserted among equally close
\* ones; 0 when none is within the threshold.
NearestPosOldest(idx, e, threshold) ==
    LET near == {i \in 1..Len(idx) : Distance(idx[i].embedding, e) <= threshold}
        best == {i \in near : \A j \in near :
                    Distance(idx[i].embedding, e) <= Distance(idx[j].embedding, e)}
    IN  IF best = {} THEN 0
        ELSE CHOOSE i \in best : \A j \in best : i <= j

NearestPos(idx, e, threshold) ==
    LET near == {i \in 1..Len(idx) : Distance(idx[i].embedding, e) <= threshold}
        best == {i \in near : \A j \in near :
                    Distance(idx[i].embedding, e) <= Distance(idx[j].embedding, e)}
    IN  IF best = {} THEN 0
        ELSE CHOOSE i \in best : \A j \in best : j <= i

\* ------------------------------------------------------- Entry Store --
StoreIds(st) == DOMAIN st

\* put(entry) -> entry_id, with the id the store hands out
StorePut(st, id, entry) ==
    [i \in StoreIds(st) \cup {id} |-> IF i = id THEN entry ELSE st[i]]

\* remove(entry_id)
StoreRemove(st, ids) == [i \in StoreIds(st) \ ids |-> st[i]]

IdsOfKey(st, k) == {i \in StoreIds(st) : st[i].key = k}

Oldest(st) == {i \in StoreIds(st) : \A j \in StoreIds(st) : i <= j}

\* ---------------------------------------------------- Semantic Cache --
\* The insert step of both store paths, run inside the exclusive section:
\* an entry under the same key is replaced wholesale, the oldest entry is
\* dropped when the store is full (CapacityExceeded), the entry is put, and
\* it is indexed when it has an embedding (a key-only entry is not).
InsertInPlace(idx, st, id, args, e) ==
    LET same == IdsOfKey(st, args.key)
        entry == [key |-> args.key, embedding |-> e, response |-> args.response,
                  tier |-> args.tier, tokens |-> args.tokens]
        drop == IF Cardinality(StoreIds(st)) >= Capacity THEN Oldest(st) ELSE {}
        st2 == StoreRemove(st, drop)
        idx2 == IndexRemove(idx, drop)
    IN  IF same # {}
        THEN LET i == CHOOSE j \in same : TRUE
                 idx1 == IndexRemove(idx, {i})
             IN  [store |-> [st EXCEPT ![i] = entry],
                  index |-> IF e = NoEmbedding THEN idx1 ELSE IndexInsert(idx1, e, i)]
        ELSE [store |-> StorePut(st2, id, entry),
              index |-> IF e = NoEmbedding THEN idx2 ELSE IndexInsert(idx2, e, id)]

Insert(idx, st, id, args, e) ==
    LET same == IdsOfKey(st, args.key)
        st1 == StoreRemove(st, same)
        idx1 == IndexRemove(idx, same)
        drop == IF Cardinality(StoreIds(st1)) >= Capacity THEN Oldest(st1) ELSE {}
        st2 == StoreRemove(st1, drop)
        idx2 == IndexRemove(idx1, drop)
        entry == [key |-> args.key, embedding |-> e, response |-> args.response,
                  tier |-> args.tier, tokens |-> args.tokens]
    IN  [store |-> StorePut(st2, id, entry),
         index |-> IF e = NoEmbedding THEN idx2 ELSE IndexInsert(idx2, e, id)]

\* Eviction or invalidation of one entry, inside the exclusive section.
Remove(idx, st, id) ==
    [store |-> StoreRemove(st, {id}), index |-> IndexRemove(idx, {id})]

\* lookup, first phase: exact key match.
ExactMatchSkipped(st, k) == Miss

ExactMatch(st, k) ==
    LET ids == IdsOfKey(st, k)
    IN  IF ids = {} THEN Miss
        ELSE LET i == CHOOSE j \in ids : TRUE
             IN  Hit(st[i].response, st[i].tier)

\* lookup, second phase: the nearest neighbour of the content's embedding.
\* An index entry without a store entry is the IndexCorruption error.
SemanticMatch(idx, st, e) ==
    IF e = NoEmbedding THEN Miss
    ELSE LET p == NearestPos(idx, e, Threshold)
         IN  IF p = 0 THEN Miss
             ELSE IF idx[p].id \notin StoreIds(st) THEN IndexCorruption
             ELSE Hit(st[idx[p].id].response, st[idx[p].id].tier)

\* lookup(key, content), e being what the provider returns for content.
Lookup(idx, st, k, e) ==
    IF ExactMatch(st, k) # Miss THEN ExactMatch(st, k)
    ELSE SemanticMatch(idx, st, e)

\* --------------------------------------------------------- the lock --
\* state.cache.write().await is granted when nobody holds the lock.
WriteBesideWriter == readers = {}

WriteBesideReaders == writers = {}

CanAcquireWrite == writers = {} /\ readers = {}

\* let mut cache = ...: the guard is bound to a name, so the task holds the
\* exclusive lock from the grant to the end of the guard's scope.
GuardDropped(t) == writers

HoldWrite(t) == writers \cup {t}

\* state.cache.read().await is granted when no writer holds the lock.
CanAcquireRead == writers = {}

\* ----------------------------------------------- the patched call site --
\* if let Some(emb) = embedding
NotSome(r) == r.embedding = NoEmbedding

IsSome(r) == r.embedding # NoEmbedding

\* the arguments of cache.store_with_embedding(...)
FastArgsDefaultTier(r) ==
    [key |-> r.cache_key, embedding |-> r.embedding,
     response |-> r.response_text, tier |-> "Fast",
     tokens |-> r.prompt_tokens + r.completion_tokens]

FastArgs(r) ==
    [key |-> r.cache_key, embedding |-> r.embedding,
     response |-> r.response_text, tier |-> r.actual_tier,
     tokens |-> r.prompt_tokens + r.completion_tokens]

\* the arguments of cache.store_response(...)
FallbackArgsDefaultTier(r) ==
    [key |-> r.cache_key, response |-> r.response_text, tier |-> "Fast",
     tokens |-> r.prompt_tokens + r.completion_tokens]

FallbackArgs(r) ==
    [key |-> r.cache_key, response |-> r.response_text, tier |-> r.actual_tier,
     tokens |-> r.prompt_tokens + r.completion_tokens]

\* ------------------------------------------------------ bookkeeping --
\* lastAcq follows the stores in the order they acquire the exclusive lock.
\* A key whose entry leaves the store by eviction or invalidation has no last
\* store any more; a cancelled call is no store, and gives the key back to
\* the store before it.
AcquiredBy(la, k, args) ==
    [la EXCEPT ![k] = [response |-> args.response, tier |-> args.tier]]

Forget(la, st, keep) ==
    [x \in Keys |-> IF x # keep /\ IdsOfKey(st, x) = {} THEN NoStore ELSE la[x]]

\* ------------------------------------------------------------- Init --
\* The cache before any request.
CacheEmpty ==
    /\ pc = [t \in Tasks |-> "idle"]
    /\ req = [t \in Tasks |-> NoReq]
    /\ result = [t \in Tasks |-> NoResult]
    /\ writers = {}
    /\ readers = {}
    /\ index = <<>>
    /\ store = <<>>
    /\ nextId = 1
    /\ prov = [t \in Tasks |-> "idle"]
    /\ calls = [t \in Tasks |-> NoCalls]
    /\ lastAcq = [k \in Keys |-> NoStore]
    /\ prevAcq = [t \in Tasks |-> NoStore]
    /\ snap = [t \in Tasks |-> NoSnap]
    /\ overlapped = [t \in Tasks |-> FALSE]
    /\ ops = 0

\* The script is not part of the running gateway.
ScriptAbsent ==
    /\ at = "absent"
    /\ file = <<>>
    /\ content = <<>>
    /\ new_content = <<>>
    /\ stdout = <<>>
    /\ linesep = "LF"
    /\ runs = 0
    /\ before = <<>>
    /\ original = <<>>

Init == CacheEmpty /\ ScriptAbsent

\* ---------------------------------------------------- the handlers --
\* A handler reaches the store step with a key, a response, a tier, the
\* token counts and an optional precomputed embedding, and waits for
\* state.cache.write().
StartStore(t, k, e, p) ==
    /\ pc[t] = "idle"
    /\ ops < MaxOps
    /\ pc' = [pc EXCEPT ![t] = "wait_write"]
    /\ req' = [req EXCEPT ![t] = StoreReq(k, e, p)]
    /\ ops' = ops + 1
    /\ overlapped' = [overlapped EXCEPT ![t] =
          \E u \in Tasks \ {t} : req[u].op = "store" /\ req[u].cache_key = k]
    /\ UNCHANGED <<result, writers, readers, index, store, nextId, prov,
                   calls, lastAcq, prevAcq, snap>>
    /\ UNCHANGED script

\* The exclusive lock is granted and the handler runs on to its next
\* suspension point.  With an embedding: store_with_embedding inserts, with
\* no await.  Without: store_response is called and awaits the embedding
\* provider, the guard `cache` still alive.
StoreAcquire(t) ==
    /\ pc[t] = "wait_write"
    /\ req[t].op = "store"
    /\ CanAcquireWrite
    /\ writers' = HoldWrite(t)
    /\ prevAcq' = [prevAcq EXCEPT ![t] = lastAcq[req[t].cache_key]]
    /\ IF IsSome(req[t])
       THEN LET a == FastArgs(req[t])
                ins == Insert(index, store, nextId, a, a.embedding)
            IN  /\ index' = ins.index
                /\ store' = ins.store
                /\ nextId' = nextId + 1
                /\ lastAcq' = Forget(AcquiredBy(lastAcq, req[t].cache_key, a),
                                     ins.store, req[t].cache_key)
                /\ calls' = [calls EXCEPT ![t].store_with_embedding = @ + 1]
                /\ result' = [result EXCEPT ![t] = Ok]
                /\ pc' = [pc EXCEPT ![t] = "stored"]
                /\ UNCHANGED <<prov, snap>>
       ELSE /\ lastAcq' = AcquiredBy(lastAcq, req[t].cache_key, FallbackArgs(req[t]))
            /\ calls' = [calls EXCEPT ![t].store_response = @ + 1]
            /\ prov' = [prov EXCEPT ![t] = "busy"]
            /\ snap' = [snap EXCEPT ![t] = [index |-> index, store |-> store]]
            /\ pc' = [pc EXCEPT ![t] = "sr_embedding"]
            /\ UNCHANGED <<index, store, nextId, result>>
    /\ UNCHANGED <<req, readers, ops, overlapped>>
    /\ UNCHANGED script

\* The provider answers store_response: with an embedding the entry is
\* inserted and indexed, on failure it is inserted key-only.  Either way the
\* caller gets no error.
EmbedReturn(t, e) ==
    /\ pc[t] = "sr_embedding"
    /\ LET a == FallbackArgs(req[t])
           ins == Insert(index, store, nextId, a, e)
       IN  /\ index' = ins.index
           /\ store' = ins.store
           /\ lastAcq' = Forget(lastAcq, ins.store, a.key)
    /\ nextId' = nextId + 1
    /\ prov' = [prov EXCEPT ![t] = IF e = NoEmbedding THEN "failed" ELSE "ok"]
    /\ result' = [result EXCEPT ![t] = Ok]
    /\ snap' = [snap EXCEPT ![t] = NoSnap]
    /\ pc' = [pc EXCEPT ![t] = "stored"]
    /\ UNCHANGED <<req, writers, readers, calls, prevAcq, ops, overlapped>>
    /\ UNCHANGED script

\* The handler is cancelled while store_response awaits the provider: its
\* future is dropped, and the guard with it.
Cancel(t) ==
    /\ pc[t] = "sr_embedding"
    /\ writers' = writers \ {t}
    /\ pc' = [pc EXCEPT ![t] = "idle"]
    /\ req' = [req EXCEPT ![t] = NoReq]
    /\ prov' = [prov EXCEPT ![t] = "idle"]
    /\ calls' = [calls EXCEPT ![t] = NoCalls]
    /\ lastAcq' = [lastAcq EXCEPT ![req[t].cache_key] = prevAcq[t]]
    /\ prevAcq' = [prevAcq EXCEPT ![t] = NoStore]
    /\ snap' = [snap EXCEPT ![t] = NoSnap]
    /\ overlapped' = [overlapped EXCEPT ![t] = FALSE]
    /\ UNCHANGED <<result, readers, index, store, nextId, ops>>
    /\ UNCHANGED script

\* The guard goes out of scope after the store call.
Release(t) ==
    /\ pc[t] = "stored"
    /\ writers' = writers \ {t}
    /\ pc' = [pc EXCEPT ![t] = "idle"]
    /\ req' = [req EXCEPT ![t] = NoReq]
    /\ result' = [result EXCEPT ![t] = NoResult]
    /\ prov' = [prov EXCEPT ![t] = "idle"]
    /\ calls' = [calls EXCEPT ![t] = NoCalls]
    /\ prevAcq' = [prevAcq EXCEPT ![t] = NoStore]
    /\ overlapped' = [overlapped EXCEPT ![t] = FALSE]
    /\ UNCHANGED <<readers, index, store, nextId, lastAcq, snap, ops>>
    /\ UNCHANGED script

\* Eviction policy or explicit invalidation: one entry is removed from the
\* index and the store inside one exclusive section.
StartEvict(t) ==
    /\ pc[t] = "idle"
    /\ ops < MaxOps
    /\ StoreIds(store) # {}
    /\ pc' = [pc EXCEPT ![t] = "wait_write"]
    /\ req' = [req EXCEPT ![t] = EvictReq]
    /\ ops' = ops + 1
    /\ UNCHANGED <<result, writers, readers, index, store, nextId, prov,
                   calls, lastAcq, prevAcq, snap, overlapped>>
    /\ UNCHANGED script

Evict(t, id) ==
    /\ pc[t] = "wait_write"
    /\ req[t].op = "evict"
    /\ CanAcquireWrite
    /\ id \in StoreIds(store)
    /\ writers' = writers \cup {t}
    /\ LET rm == Remove(index, store, id)
       IN  /\ index' = rm.index
           /\ store' = rm.store
           /\ lastAcq' = Forget(lastAcq, rm.store, "")
    /\ result' = [result EXCEPT ![t] = Ok]
    /\ pc' = [pc EXCEPT ![t] = "stored"]
    /\ UNCHANGED <<req, readers, nextId, prov, calls, prevAcq, snap, ops, overlapped>>
    /\ UNCHANGED script

\* lookup(key, content)
StartLookup(t, k) ==
    /\ pc[t] = "idle"
    /\ ops < MaxOps
    /\ pc' = [pc EXCEPT ![t] = "wait_read"]
    /\ req' = [req EXCEPT ![t] = LookupReq(k)]
    /\ ops' = ops + 1
    /\ UNCHANGED <<result, writers, readers, index, store, nextId, prov,
                   calls, lastAcq, prevAcq, snap, overlapped>>
    /\ UNCHANGED script

\* The shared lock is granted; the exact key match is tried first.  A hit
\* returns at once; otherwise the content's embedding is awaited, with only
\* the shared lock held.
LookupAcquire(t) ==
    /\ pc[t] = "wait_read"
    /\ CanAcquireRead
    /\ LET r == ExactMatch(store, req[t].cache_key)
       IN  IF r # Miss
           THEN /\ result' = [result EXCEPT ![t] = r]
                /\ pc' = [pc EXCEPT ![t] = "lk_done"]
                /\ UNCHANGED <<readers, prov>>
           ELSE /\ readers' = readers \cup {t}
                /\ prov' = [prov EXCEPT ![t] = "busy"]
                /\ pc' = [pc EXCEPT ![t] = "lk_embedding"]
                /\ UNCHANGED result
    /\ UNCHANGED <<req, writers, index, store, nextId, calls, lastAcq,
                   prevAcq, snap, ops, overlapped>>
    /\ UNCHANGED script

\* The provider answers lookup: the index is queried and the shared lock
\* released.
LookupEmbedReturn(t, e) ==
    /\ pc[t] = "lk_embedding"
    /\ result' = [result EXCEPT ![t] = SemanticMatch(index, store, e)]
    /\ readers' = readers \ {t}
    /\ prov' = [prov EXCEPT ![t] = "idle"]
    /\ pc' = [pc EXCEPT ![t] = "lk_done"]
    /\ UNCHANGED <<req, writers, index, store, nextId, calls, lastAcq,
                   prevAcq, snap, ops, overlapped>>
    /\ UNCHANGED script

\* The caller consumes the hit or miss.
LookupReturn(t) ==
    /\ pc[t] = "lk_done"
    /\ pc' = [pc EXCEPT ![t] = "idle"]
    /\ req' = [req EXCEPT ![t] = NoReq]
    /\ result' = [result EXCEPT ![t] = NoResult]
    /\ UNCHANGED <<writers, readers, index, store, nextId, prov, calls,
                   lastAcq, prevAcq, snap, ops, overlapped>>
    /\ UNCHANGED script

Next ==
    \/ \E t \in Tasks, k \in Keys, e \in OptEmbeddings, p \in Payloads :
          StartStore(t, k, e, p)
    \/ \E t \in Tasks : StoreAcquire(t)
    \/ \E t \in Tasks, e \in OptEmbeddings : EmbedReturn(t, e)
    \/ \E t \in Tasks : Cancel(t)
    \/ \E t \in Tasks : Release(t)
    \/ \E t \in Tasks : StartEvict(t)
    \/ \E t \in Tasks, id \in StoreIds(store) : Evict(t, id)
    \/ \E t \in Tasks, k \in Keys : StartLookup(t, k)
    \/ \E t \in Tasks : LookupAcquire(t)
    \/ \E t \in Tasks, e \in OptEmbeddings : LookupEmbedReturn(t, e)
    \/ \E t \in Tasks : LookupReturn(t)

Spec == Init /\ [][Next]_vars

\* ------------------------------------------------- the patch script --
\* Text is a sequence of atoms: a line's text without its indentation unit,
\* the indentation unit, a newline, or text that is none of these.
Indent == "    "
NL == "\n"
Other == "x"

StoreComment == "    // Store response in cache for future hits"
WriteLock == "    let mut cache = state.cache.write().await;"
StoreResponseCall == "    cache.store_response("
KeyArg == "        cache_key,"
ResponseArg == "        response_text.clone(),"
TierArg == "        actual_tier,"
TokensArg == "        prompt_tokens + completion_tokens,"
CallAwaited == "    ).await;"

FixComment == "    // CRITICAL FIX: Use pre-generated embedding to avoid holding write lock during embedding generation"
IfSome == "    if let Some(emb) = embedding {"
FastComment == "        // Use store_with_embedding to avoid regenerating the embedding"
StoreWithEmbeddingCall == "        cache.store_with_embedding("
EmbArg == "            emb,"
CallClosed == "        );"
Else == "    } else {"
FallbackComment == "        // Fallback to regular store if embedding generation failed earlier"
EndIf == "    }"

\* Lines joined by newlines.
RECURSIVE Lines(_)
Lines(ls) ==
    IF Len(ls) = 0 THEN <<>>
    ELSE IF Len(ls) = 1 THEN ls[1]
    ELSE ls[1] \o <<NL>> \o Lines(Tail(ls))

\* The text old_pattern matches: every regex metacharacter in it is
\* escaped, so it matches this text and no other.
old_pattern ==
    Lines(<< <<StoreComment>>, <<WriteLock>>, <<StoreResponseCall>>,
             <<KeyArg>>, <<ResponseArg>>, <<TierArg>>, <<TokensArg>>,
             <<CallAwaited>> >>)

\* A replacement that keeps the old call-site under the new comment.
OldKept == <<FixComment, NL>> \o old_pattern

\* The replacement.  A line the replacement indents one unit deeper than
\* the old call-site is the indentation unit followed by the old line.
new_code ==
    Lines(<< <<StoreComment>>, <<FixComment>>, <<WriteLock>>, <<IfSome>>,
             <<FastComment>>, <<StoreWithEmbeddingCall>>,
             <<Indent, KeyArg>>, <<EmbArg>>, <<Indent, ResponseArg>>,
             <<Indent, TierArg>>, <<Indent, TokensArg>>, <<CallClosed>>,
             <<Else>>, <<FallbackComment>>,
             <<Indent, StoreResponseCall>>, <<Indent, KeyArg>>,
             <<Indent, ResponseArg>>, <<Indent, TierArg>>,
             <<Indent, TokensArg>>, <<Indent, CallAwaited>>, <<EndIf>> >>)

\* pat occurs in s at position i.
MatchAt(pat, s, i) ==
    /\ i + Len(pat) - 1 <= Len(s)
    /\ SubSeq(s, i, i + Len(pat) - 1) = pat

\* Where pat occurs in s.
Occurrences(pat, s) == {i \in 1..Len(s) : MatchAt(pat, s, i)}

\* The occurrences of pat in s that begin at position i or later.
From(pat, s, i) == {j \in Occurrences(pat, s) : j >= i}

\* The leftmost of them.
Leftmost(occ) == CHOOSE j \in occ : \A k \in occ : j <= k

\* re.sub scanning from position i: text up to the leftmost occurrence is
\* copied, the occurrence is replaced, and the scan resumes after it, so
\* that occurrences replaced do not overlap.
RECURSIVE SubFrom(_, _, _, _)
SubFrom(pat, repl, s, i) ==
    LET occ == From(pat, s, i)
    IN  IF occ = {} THEN SubSeq(s, i, Len(s))
        ELSE LET j == Leftmost(occ)
             IN  SubSeq(s, i, j - 1) \o repl
                    \o SubFrom(pat, repl, s, j + Len(pat))

\* re.sub with count=1: only the first occurrence is replaced.
SubFirstFrom(pat, repl, s, i) ==
    LET occ == From(pat, s, i)
    IN  IF occ = {} THEN SubSeq(s, i, Len(s))
        ELSE LET j == Leftmost(occ)
             IN  SubSeq(s, i, j - 1) \o repl
                    \o SubSeq(s, j + Len(pat), Len(s))

SubFirst(pat, repl, s) == SubFirstFrom(pat, repl, s, 1)

\* re.sub(pat, repl, s)
Sub(pat, repl, s) == SubFrom(pat, repl, s, 1)

\* Line terminators a file can hold.
Terminators == {"LF", "CRLF"}

\* Text-mode read: universal newlines turn every terminator into "\n".
Decode(f) == [i \in 1..Len(f) |-> IF f[i] \in Terminators THEN NL ELSE f[i]]

\* Text-mode write: "\n" becomes the platform's line terminator.
Encode(s, sep) == [i \in 1..Len(s) |-> IF s[i] = NL THEN sep ELSE s[i]]

\* What target files are put together from: other text, line ends, the old
\* call-site whole or in two parts, the indentation unit, and the
\* replacement (a file that was patched before).
SplitAt == 7
Chunks ==
    { <<Other>>, <<NL>>, <<Indent>>, old_pattern,
      SubSeq(old_pattern, 1, SplitAt),
      SubSeq(old_pattern, SplitAt + 1, Len(old_pattern)),
      new_code }

RECURSIVE Texts(_)
Texts(n) ==
    IF n = 0 THEN {<<>>}
    ELSE LET shorter == Texts(n - 1)
         IN  shorter \cup {c \o t : c \in Chunks, t \in shorter}

Success == "File modified successfully!"

\* A file in either line-terminator convention, on either platform.
ScriptInit ==
    /\ at = "open"
    /\ \E t \in Texts(MaxChunks), sep \in Terminators : file = Encode(t, sep)
    /\ linesep \in Terminators
    /\ content = <<>>
    /\ new_content = <<>>
    /\ stdout = <<>>
    /\ runs = 1
    /\ before = file
    /\ original = file

\* with open(file_path, 'r', encoding='utf-8') as f: content = f.read()
Read ==
    /\ at = "open"
    /\ content' = Decode(file)
    /\ at' = "sub"
    /\ UNCHANGED <<file, new_content, stdout, linesep, runs, before, original>>
    /\ UNCHANGED cache

\* new_content = re.sub(old_pattern, new_code, content)
Substitute ==
    /\ at = "sub"
    /\ new_content' = Sub(old_pattern, new_code, content)
    /\ at' = "write"
    /\ UNCHANGED <<file, content, stdout, linesep, runs, before, original>>
    /\ UNCHANGED cache

\* with open(file_path, 'w', encoding='utf-8') as f: f.write(new_content)
Write ==
    /\ at = "write"
    /\ file' = Encode(new_content, linesep)
    /\ at' = "print"
    /\ UNCHANGED <<content, new_content, stdout, linesep, runs, before, original>>
    /\ UNCHANGED cache

\* print("File modified successfully!")
Report ==
    /\ at = "print"
    /\ stdout' = Append(stdout, Success)
    /\ at' = "exit"
    /\ UNCHANGED <<file, content, new_content, linesep, runs, before, original>>
    /\ UNCHANGED cache

\* The script is run again on the file it left.
Rerun ==
    /\ at = "exit"
    /\ runs < MaxRuns
    /\ runs' = runs + 1
    /\ before' = file
    /\ content' = <<>>
    /\ new_content' = <<>>
    /\ stdout' = <<>>
    /\ at' = "open"
    /\ UNCHANGED <<file, linesep, original>>
    /\ UNCHANGED cache

PatchInit == CacheEmpty /\ ScriptInit

PatchNext ==
    \/ Read
    \/ Substitute
    \/ Write
    \/ Report
    \/ Rerun

PatchSpec == PatchInit /\ [][PatchNext]_vars

\* ============================================================ claims ==
InStore(t) == req[t].op = "store"

OnFastPath(t) == InStore(t) /\ req[t].embedding # NoEmbedding

OnFallbackPath(t) == InStore(t) /\ req[t].embedding = NoEmbedding

Stored(t) == Hit(req[t].response_text, req[t].actual_tier)

\* C1: no task holds the exclusive lock while an embedding generation it is
\* waiting on is in progress.
C1_NoExclusiveLockDuringEmbedding ==
    \A t \in Tasks : prov[t] = "busy" => t \notin writers

\* C2: whenever some task's store_response is waiting for the embedding
\* provider, a lookup that another task has issued can take the shared lock
\* and go on, without the provider returning first.
C2_LookupNotBlockedByStoreEmbedding ==
    \A t \in Tasks : pc[t] = "sr_embedding" =>
        \A u \in Tasks \ {t} : pc[u] = "wait_read" => ENABLED LookupAcquire(u)

\* C3: when the provider failed during store_response, the store has
\* completed with no error, and a lookup with the stored key, whatever its
\* content, returns Hit with the stored response and tier.
C3_FailedEmbeddingStillStored ==
    \A t \in Tasks :
        (pc[t] = "stored" /\ OnFallbackPath(t) /\ prov[t] = "failed") =>
            /\ result[t] = Ok
            /\ \A e \in OptEmbeddings :
                  Lookup(index, store, req[t].cache_key, e) = Stored(t)

C3_Witness ==
    \E t \in Tasks :
        /\ pc[t] = "stored" /\ OnFallbackPath(t) /\ prov[t] = "failed"
        /\ req[t].actual_tier = "Slow"
        /\ Cardinality(StoreIds(store)) = 2

\* C4, as claimed: right after store_with_embedding, a lookup with the same
\* embedding, under any key, returns Hit with the stored response and tier.
C4_AnyKeyLookupReturnsStored ==
    \A t \in Tasks : (pc[t] = "stored" /\ OnFastPath(t)) =>
        \A k \in Keys :
            Lookup(index, store, k, req[t].embedding) = Stored(t)

\* C4, amended: right after store_with_embedding, a lookup with the same
\* embedding returns Hit with the stored response and tier when its key is
\* the stored key or the key of no live entry.
C4_LookupReturnsStored ==
    \A t \in Tasks : (pc[t] = "stored" /\ OnFastPath(t)) =>
        \A k \in Keys :
            (k = req[t].cache_key \/ IdsOfKey(store, k) = {}) =>
                Lookup(index, store, k, req[t].embedding) = Stored(t)

\* The stored entry has an older neighbour with the same embedding under
\* another key and another response, and a third key is free.
C4_Witness ==
    \E t \in Tasks :
        /\ pc[t] = "stored" /\ OnFastPath(t)
        /\ \E i \in StoreIds(store) :
              /\ store[i].key # req[t].cache_key
              /\ store[i].embedding = req[t].embedding
              /\ store[i].response # req[t].response_text
        /\ \E k \in Keys : IdsOfKey(store, k) = {}

\* C5, as claimed: outside the exclusive section, the entry ids of the
\* Similarity Index are exactly those of the Entry Store.
C5_IndexEqualsStore ==
    writers = {} => IndexIds(index) = StoreIds(store)

\* C5, amended: outside the exclusive section, every entry id in the
\* Similarity Index is that of a live Entry Store entry, listed once and
\* under the entry's embedding, and every live entry that has an embedding
\* is in the index; an entry stored key-only is in the store alone.
C5_IndexStoreConsistent ==
    writers = {} =>
        /\ \A p \in 1..Len(index) :
              /\ index[p].id \in StoreIds(store)
              /\ index[p].embedding = store[index[p].id].embedding
              /\ \A q \in 1..Len(index) : index[q].id = index[p].id => q = p
        /\ \A i \in StoreIds(store) :
              store[i].embedding # NoEmbedding => i \in IndexIds(index)

\* An entry has been removed, and an indexed and a key-only entry live on.
C5_Witness ==
    /\ writers = {}
    /\ nextId > 3
    /\ \E i, j \in StoreIds(store) :
          store[i].embedding = NoEmbedding /\ store[j].embedding # NoEmbedding

\* C6: once the stores have released the lock, a lookup of a key returns the
\* response and tier of the last store to have acquired the exclusive lock
\* for that key (as long as the entry was not evicted or invalidated since).
C6_LastAcquirerWins ==
    writers = {} =>
        \A k \in Keys : lastAcq[k] # NoStore =>
            \A e \in OptEmbeddings :
                Lookup(index, store, k, e) = Hit(lastAcq[k].response, lastAcq[k].tier)

\* Two stores to one key were under way together, both are done, and the one
\* that acquired the lock last carries another response than the first.
C6_Witness ==
    \E t \in Tasks :
        /\ pc[t] = "stored" /\ InStore(t) /\ overlapped[t]
        /\ ops = 2
        /\ prevAcq[t] # NoStore
        /\ prevAcq[t].response # req[t].response_text
        /\ lastAcq[req[t].cache_key].response = req[t].response_text
        /\ \A u \in Tasks \ {t} : pc[u] = "idle"

\* C7: a cancellation during store_response's embedding generation leaves
\* the Similarity Index and the Entry Store as they were when store_response
\* was called, and the cancelled task holds no lock.
C7_CancelLeavesNoTrace ==
    [][\A t \in Tasks :
          (pc[t] = "sr_embedding" /\ pc'[t] = "idle") =>
              /\ index' = snap[t].index
              /\ store' = snap[t].store
              /\ t \notin writers'
              /\ t \notin readers']_vars

\* store_response awaits the provider over a cache that holds an entry,
\* while a lookup by another task waits.
C7_Witness ==
    \E t \in Tasks :
        /\ pc[t] = "sr_embedding"
        /\ StoreIds(store) # {}
        /\ \E u \in Tasks : pc[u] = "wait_read"

\* C8: on the fast path the step that acquires the exclusive lock is the
\* step that inserts the entry (there is no suspension point between them),
\* and the embedding provider is never invoked on this path.
C8_FastPathSynchronous ==
    [][/\ \A t \in Tasks :
             (OnFastPath(t) /\ t \notin writers /\ t \in writers') =>
                 /\ pc'[t] = "stored"
                 /\ ExactMatch(store', req[t].cache_key) = Stored(t)
       /\ \A t \in Tasks : OnFastPath(t)' => prov'[t] = "idle"]_vars

C8_Witness ==
    \E t \in Tasks :
        /\ pc[t] = "stored" /\ OnFastPath(t)
        /\ t \in writers
        /\ \E u \in Tasks \ {t} : pc[u] = "wait_write"

\* C9: before the dispatch no store call has been made; after it, exactly
\* one: store_with_embedding when the embedding is present, store_response
\* when it is absent.
C9_DispatchOnEmbedding ==
    \A t \in Tasks : InStore(t) =>
        /\ pc[t] = "wait_write" => calls[t] = NoCalls
        /\ (pc[t] \in {"sr_embedding", "stored"} /\ OnFastPath(t)) =>
              calls[t] = [store_with_embedding |-> 1, store_response |-> 0]
        /\ (pc[t] \in {"sr_embedding", "stored"} /\ OnFallbackPath(t)) =>
              calls[t] = [store_with_embedding |-> 0, store_response |-> 1]

C9_Witness ==
    \E t, u \in Tasks :
        /\ pc[t] = "stored" /\ OnFallbackPath(t)
        /\ calls[t].store_response = 1
        /\ pc[u] = "wait_write" /\ OnFastPath(u)

\* C10: either nobody holds the exclusive lock (and any number of tasks hold
\* the shared lock), or exactly one task holds the exclusive lock and nobody
\* holds the shared lock.
C10_ReaderWriterExclusion ==
    \/ writers = {}
    \/ Cardinality(writers) = 1 /\ readers = {}

\* Two lookups hold the shared lock at once.
C10_Witness ==
    /\ Cardinality(readers) = 2
    /\ writers = {}

\* C11: response, tier and token cost of an entry are written together: every
\* live entry carries the response, the tier and the token sum of one and the
\* same store call, and every Hit a lookup returned pairs a response with the
\* tier of that same call.
C11_EntryWrittenWhole ==
    /\ \A i \in StoreIds(store) : \E p \in Payloads :
          /\ store[i].response = p.response_text
          /\ store[i].tier = p.actual_tier
          /\ store[i].tokens = p.prompt_tokens + p.completion_tokens
    /\ \A t \in Tasks : result[t].kind = "Hit" => \E p \in Payloads :
          /\ result[t].response = p.response_text
          /\ result[t].tier = p.actual_tier

\* A lookup has returned a Hit while another task's store is under way.
C11_Witness ==
    \E t, u \in Tasks :
        /\ pc[t] = "lk_done" /\ result[t] = Hit("R2", "Slow")
        /\ InStore(u) /\ pc[u] \in {"wait_write", "sr_embedding", "stored"}

\* C12: lookup tries the exact key first.  For a key that has a live entry,
\* lookup returns Hit with that entry's response and tier whatever embedding
\* the content has, and the step that is granted the shared lock returns it
\* at once: the provider is not asked and the index not queried.
C12_ExactKeyFirst ==
    [][/\ \A t \in Tasks :
             (/\ pc[t] = "wait_read" /\ pc'[t] # "wait_read"
              /\ IdsOfKey(store, req[t].cache_key) # {}) =>
                 /\ pc'[t] = "lk_done"
                 /\ prov'[t] = "idle"
                 /\ t \notin readers'
                 /\ \E i \in IdsOfKey(store, req[t].cache_key) :
                       result'[t] = Hit(store[i].response, store[i].tier)
       /\ \A k \in Keys : \A i \in IdsOfKey(store', k) : \A e \in OptEmbeddings :
             Lookup(index', store', k, e) = Hit(store'[i].response, store'[i].tier)]_vars

\* The lookup hit an entry that is in no index (stored key-only), while an
\* entry with another response is indexed and so the only possible neighbour
\* of any content.
C12_Witness ==
    \E t \in Tasks :
        /\ pc[t] = "lk_done" /\ result[t].kind = "Hit"
        /\ \E i, j \in StoreIds(store) :
              /\ store[i].key = req[t].cache_key
              /\ store[i].embedding = NoEmbedding
              /\ j \in IndexIds(index)
              /\ store[j].response # result[t].response

\* C13: a live entry is never changed.  Every step leaves each entry that
\* stays in the store as it was; a new entry gets an id never used before;
\* and when it is stored under a key that had an entry, that entry has left
\* both the Entry Store and the Similarity Index.
C13_EntriesImmutable ==
    [][/\ \A i \in StoreIds(store) \cap StoreIds(store') : store'[i] = store[i]
       /\ \A j \in StoreIds(store') \ StoreIds(store) :
             /\ j >= nextId
             /\ \A i \in IdsOfKey(store, store'[j].key) :
                   i \notin StoreIds(store') /\ i \notin IndexIds(index')]_vars

\* The second store of a key, with another response, has replaced the first.
C13_Witness ==
    \E t \in Tasks :
        /\ pc[t] = "stored" /\ InStore(t)
        /\ prevAcq[t] # NoStore
        /\ prevAcq[t].response # req[t].response_text
        /\ nextId = 3
        /\ Cardinality(StoreIds(store)) = 1
        /\ ExactMatch(store, req[t].cache_key) = Stored(t)

\* C14: nearest(embedding, threshold) returns an indexed entry within the
\* threshold such that no indexed entry is closer and none equally close was
\* inserted later (entry ids are handed out in insertion order); it returns
\* none exactly when no indexed entry is within the threshold.
C14_NearestClosestThenFreshest ==
    \A e \in Embeddings : \A th \in 0..Threshold :
        LET p == NearestPos(index, e, th)
            within == {i \in 1..Len(index) : Distance(index[i].embedding, e) <= th}
        IN  IF within = {} THEN p = 0
            ELSE /\ p \in within
                 /\ \A j \in within :
                       \/ Distance(index[p].embedding, e) < Distance(index[j].embedding, e)
                       \/ /\ Distance(index[p].embedding, e) = Distance(index[j].embedding, e)
                          /\ index[j].id <= index[p].id

\* Two indexed entries are equally close to a query, at a distance that is
\* not zero, and a third query has no entry within the threshold.
C14_Witness ==
    /\ Len(index) = 2
    /\ index[1].id # index[2].id
    /\ \E e \in Embeddings :
          /\ Distance(index[1].embedding, e) = 1
          /\ Distance(index[2].embedding, e) = 1
    /\ \E e \in Embeddings : NearestPos(index, e, Threshold) = 0

Substituted == at \in {"write", "print", "exit"}

\* C17: the patch is idempotent.  The replacement text contains no
\* occurrence of the old call-site, so a run of the script on a file an
\* earlier run has patched substitutes nothing and leaves the file as it
\* found it: patch(patch(f)) = patch(f).
C17_PatchIdempotent ==
    /\ Occurrences(old_pattern, new_code) = {}
    /\ (Substituted /\ runs >= 2) => new_content = content
    /\ (at = "exit" /\ runs >= 2) => file = before

\* C17 witness: the first run replaced an occurrence, and the second run
\* has ended on the file the first run wrote.
C17_Witness ==
    /\ at = "exit"
    /\ runs = 2
    /\ Occurrences(old_pattern, Decode(original)) # {}
    /\ Occurrences(new_code, content) # {}
    /\ file = before
    /\ file # original

\* How far position i of content has moved in new_content: each occurrence
\* before it changed the length by that of new_code less that of
\* old_pattern.
Shift(occ, i) ==
    Cardinality({j \in occ : j < i}) * (Len(new_code) - Len(old_pattern))

\* Position i of content lies inside an occurrence.
Matched(occ, i) == \E j \in occ : j <= i /\ i < j + Len(old_pattern)

\* C18: re.sub rewrites every occurrence of the old call-site and leaves
\* all text outside the occurrences unchanged; with no occurrence, what is
\* written back equals what was read, and the script still prints "File
\* modified successfully!".  Stated on the text the script handles: the
\* file receives new_content with the platform's line terminators.
C18_EveryOccurrenceRewritten ==
    Substituted =>
        LET occ == Occurrences(old_pattern, content)
        IN  /\ Len(new_content) = Len(content) + Shift(occ, Len(content) + 1)
            /\ \A i \in occ : MatchAt(new_code, new_content, i + Shift(occ, i))
            /\ \A i \in 1..Len(content) :
                  ~Matched(occ, i) => new_content[i + Shift(occ, i)] = content[i]
            /\ occ = {} => new_content = content
            /\ at \in {"print", "exit"} => file = Encode(new_content, linesep)
            /\ at = "exit" => stdout = <<Success>>

\* C18 witness: the first run rewrote two occurrences with other text
\* around them, and the second run, finding none, wrote back what it read
\* and reported success.
C18_Witness ==
    /\ at = "exit"
    /\ runs = 2
    /\ Cardinality(Occurrences(old_pattern, Decode(original))) >= 2
    /\ Cardinality(Occurrences(new_code, content)) >= 2
    /\ Other \in {content[i] : i \in 1..Len(content)}
    /\ Occurrences(old_pattern, content) = {}
    /\ new_content = content
    /\ stdout = <<Success>>
====
